---- MODULE Spec2Model ----
(***************************************************************************)
(* Rate limiter and request flow of server/auth.ts.                        *)
(*                                                                         *)
(* The rate-limit store is a Map from client ip to an entry                *)
(* {attempts, lastAttempt, blockedUntil?}.  Every exported function reads  *)
(* Date.now() once and runs to completion (single-threaded event loop), so *)
(* each function is one atomic action at the current value of `now`.       *)
(* Times are milliseconds since process start.                             *)
(***************************************************************************)
EXTENDS Integers, Sequences, FiniteSets, TLC

\* ------------------------------------------------------------------------
\* Program constants (server/auth.ts)
\* ------------------------------------------------------------------------
MAX_ATTEMPTS == 5
WINDOW_MS == 15 * 60 * 1000
BLOCK_DURATION_MS == 30 * 60 * 1000
SWEEP_INTERVAL_MS == 10 * 60 * 1000

\* An absent optional number (blockedUntil?, retryAfter?).  The code tests
\* blockedUntil by truthiness, which 0 and undefined both fail, and every
\* value it assigns is now + BLOCK_DURATION_MS > 0.
Undefined == 0

\* ------------------------------------------------------------------------
\* Bounds of the model
\* ------------------------------------------------------------------------
\* number of clock steps the model follows
MaxTicks == 6
\* recordFailedAttempt is followed until attempts = MAX_ATTEMPTS + MaxOver
MaxOver == 1
\* requests of one client that may be suspended at the await at once
MaxInflight == 2

\* the clock advances in steps of a third of the window (5 minutes); calls
\* made at the instant the sweep timer is due run before or after the sweep
TickMs == WINDOW_MS \div 3
MaxTime == MaxTicks * TickMs
AttemptsCap == MAX_ATTEMPTS + MaxOver

\* client identifiers (the ip strings)
Clients == {"A", "B"}
\* the client whose requests the request flow follows
FlowClients == {"A"}

VARIABLES
  now,        \* Date.now()
  store,      \* rateLimitStore: function from a subset of Clients to entries
  nextSweep,  \* time at which the setInterval timer fires next
  inflight,   \* requests suspended at `await verifyPassword`, per client and
              \* per outcome of the verification
  last,       \* the call that produced the current state, its result, and
              \* the caller's entry before the call (for the sweep: the
              \* entries it deleted)
  lockT,      \* history: time of the latest lockout installed for a client
              \* and not followed by resetRateLimit, or NoTime
  recent,     \* history, kept for the clients in its domain: times of the
              \* client's recorded failures that lie in [now - WINDOW_MS, now]
              \* (the latest MAX_ATTEMPTS of them)
  env,        \* process.env: ADMIN_PASSWORD_HASH, NODE_ENV, ADMIN_PASSWORD
  authCall,   \* the latest verifyPassword / changePassword call: arguments,
              \* result and console output
  horizon     \* time up to which the clock is followed

vars == <<now, store, nextSweep, inflight, last, lockT, recent,
          env, authCall, horizon>>

\* what the rate limiter never touches
aux == <<env, authCall, horizon>>

NoTime == 0 - 1

\* ------------------------------------------------------------------------
\* Pure parts of the code
\* ------------------------------------------------------------------------
\* variant: Math.floor(a / b)
CeilFloors(a, b) == a \div b

\* Math.ceil(a / b) for a >= 0, b > 0
Ceil(a, b) == (a + b - 1) \div b

\* rateLimitStore.delete(key)
MapDelete(st, key) == [k \in (DOMAIN st) \ {key} |-> st[k]]

\* rateLimitStore.set(key, value)
MapSet(st, key, value) ==
  [k \in (DOMAIN st) \cup {key} |-> IF k = key THEN value ELSE st[k]]

\* entry.blockedUntil && entry.blockedUntil > now
IsBlocked(entry, t) ==
  entry.blockedUntil # Undefined /\ entry.blockedUntil > t

\* now - entry.lastAttempt > WINDOW_MS
WindowPassed(entry, t) == t - entry.lastAttempt > WINDOW_MS

\* variant: the threshold compared with > instead of >=
MaxReachedStrict(entry) == entry.attempts > MAX_ATTEMPTS

\* variant: the threshold met one attempt early
MaxReachedEarly(entry) == entry.attempts >= MAX_ATTEMPTS - 1

\* entry.attempts >= MAX_ATTEMPTS
MaxReached(entry) == entry.attempts >= MAX_ATTEMPTS

\* variant: the lockout lasts the window longer than BLOCK_DURATION_MS
InstallLockoutLonger(st, ip, t) ==
  [st EXCEPT ![ip].blockedUntil = t + BLOCK_DURATION_MS + WINDOW_MS]

\* variant: installing the lockout also refreshes lastAttempt
InstallLockoutTouch(st, ip, t) ==
  [st EXCEPT ![ip].blockedUntil = t + BLOCK_DURATION_MS, ![ip].lastAttempt = t]

\* entry.blockedUntil = now + BLOCK_DURATION_MS
InstallLockout(st, ip, t) ==
  [st EXCEPT ![ip].blockedUntil = t + BLOCK_DURATION_MS]

\* variant: a stale entry is restarted in place instead of deleted
checkRateLimitRestarts(st, ip, t) ==
  IF ip \notin DOMAIN st
  THEN [store |-> st, allowed |-> TRUE, retryAfter |-> Undefined]
  ELSE LET entry == st[ip] IN
    IF IsBlocked(entry, t)
    THEN [store |-> st, allowed |-> FALSE,
          retryAfter |-> Ceil(entry.blockedUntil - t, 1000)]
    ELSE IF WindowPassed(entry, t)
    THEN [store |-> MapSet(st, ip, [attempts |-> 0, lastAttempt |-> t,
                                    blockedUntil |-> Undefined]),
          allowed |-> TRUE, retryAfter |-> Undefined]
    ELSE IF MaxReached(entry)
    THEN [store |-> InstallLockout(st, ip, t),
          allowed |-> FALSE,
          retryAfter |-> Ceil(BLOCK_DURATION_MS, 1000)]
    ELSE [store |-> st, allowed |-> TRUE, retryAfter |-> Undefined]

\* The result of checkRateLimit(ip) at time t on store st, with the store it
\* leaves behind.
checkRateLimit(st, ip, t) ==
  IF ip \notin DOMAIN st
  THEN [store |-> st, allowed |-> TRUE, retryAfter |-> Undefined]
  ELSE LET entry == st[ip] IN
    IF IsBlocked(entry, t)
    THEN [store |-> st, allowed |-> FALSE,
          retryAfter |-> Ceil(entry.blockedUntil - t, 1000)]
    ELSE IF WindowPassed(entry, t)
    THEN [store |-> MapDelete(st, ip), allowed |-> TRUE,
          retryAfter |-> Undefined]
    ELSE IF MaxReached(entry)
    THEN [store |-> InstallLockout(st, ip, t),
          allowed |-> FALSE,
          retryAfter |-> Ceil(BLOCK_DURATION_MS, 1000)]
    ELSE [store |-> st, allowed |-> TRUE, retryAfter |-> Undefined]

\* variant: an existing entry is replaced by a fresh object
recordFailedAttemptReplaces(st, ip, t) ==
  IF ip \notin DOMAIN st
  THEN MapSet(st, ip,
              [attempts |-> 1, lastAttempt |-> t, blockedUntil |-> Undefined])
  ELSE MapSet(st, ip, [attempts |-> st[ip].attempts + 1, lastAttempt |-> t,
                       blockedUntil |-> Undefined])

\* variant: the lockout is installed by the failure that reaches the threshold
recordFailedAttemptLocks(st, ip, t) ==
  IF ip \notin DOMAIN st
  THEN MapSet(st, ip,
              [attempts |-> 1, lastAttempt |-> t, blockedUntil |-> Undefined])
  ELSE [st EXCEPT ![ip].attempts = @ + 1, ![ip].lastAttempt = t,
                  ![ip].blockedUntil =
                    IF st[ip].attempts + 1 >= MAX_ATTEMPTS
                    THEN t + BLOCK_DURATION_MS ELSE @]

\* variant: the counter saturates at MAX_ATTEMPTS
recordFailedAttemptSaturates(st, ip, t) ==
  IF ip \notin DOMAIN st
  THEN MapSet(st, ip,
              [attempts |-> 1, lastAttempt |-> t, blockedUntil |-> Undefined])
  ELSE [st EXCEPT ![ip].attempts = IF @ < MAX_ATTEMPTS THEN @ + 1 ELSE @,
                  ![ip].lastAttempt = t]

\* The store after recordFailedAttempt(ip) at time t.
recordFailedAttempt(st, ip, t) ==
  IF ip \notin DOMAIN st
  THEN MapSet(st, ip,
              [attempts |-> 1, lastAttempt |-> t, blockedUntil |-> Undefined])
  ELSE [st EXCEPT ![ip].attempts = @ + 1, ![ip].lastAttempt = t]

\* variant: the counter is zeroed and the entry kept
resetRateLimitKeepsEntry(st, ip) ==
  [k \in DOMAIN st |-> IF k = ip THEN [st[k] EXCEPT !.attempts = 0] ELSE st[k]]

\* variant: rateLimitStore.clear()
resetRateLimitClearsAll(st, ip) == << >>

\* The store after resetRateLimit(ip).
resetRateLimit(st, ip) == MapDelete(st, ip)

\* variant: the sweep deletes only entries whose lockout has expired
SweepDeletesExpiredOnly(entry, t) ==
  entry.blockedUntil # Undefined /\ entry.blockedUntil < t

\* variant: the sweep tests only the age of the last attempt
SweepDeletesWindowOnly(entry, t) == t - entry.lastAttempt > WINDOW_MS

\* The condition under which the sweep deletes an entry.
SweepDeletes(entry, t) ==
  IF entry.blockedUntil # Undefined /\ entry.blockedUntil < t
  THEN TRUE
  ELSE t - entry.lastAttempt > WINDOW_MS

\* The store after cleanupRateLimitStore() at time t.
cleanupRateLimitStore(st, t) ==
  [k \in {c \in DOMAIN st : ~SweepDeletes(st[c], t)} |-> st[k]]

\* ------------------------------------------------------------------------
\* Credential verifier
\* ------------------------------------------------------------------------
\* candidate passwords; "" is the empty string
Passwords == {"", "p1", "p2", "p3"}
\* the salts bcrypt.hash may draw
Salts == {1, 2}
\* cost factor of bcrypt.hash(password, 10)
HASH_ROUNDS == 10

\* an unset (or empty) environment variable holding a hash: falsy
NoHash == << >>

\* bcrypt.hash(password, rounds) with the salt it drew
bcryptHash(password, salt) == <<password, salt, HASH_ROUNDS>>

\* bcrypt.compare(password, hash) when it does not throw
bcryptCompare(password, hash) == hash[1] = password

\* the environments a process may be started with; an unset or empty
\* NODE_ENV / ADMIN_PASSWORD is ""
Envs ==
  [hash : {NoHash} \cup {bcryptHash(p, s) : p \in {"p1", "p2"}, s \in Salts},
   nodeEnv : {"development", "production", ""},
   adminPassword : {"", "p1", "p3"}]

\* variant: the plaintext fallback accepted in every mode
DevFallbackAnyEnv(e, password) ==
  e.adminPassword # "" /\ password = e.adminPassword

\* NODE_ENV === 'development' && ADMIN_PASSWORD && password === ADMIN_PASSWORD
DevFallback(e, password) ==
  /\ e.nodeEnv = "development"
  /\ e.adminPassword # ""
  /\ password = e.adminPassword

\* variant: the error of the comparison is not caught
VerifyCatchRethrows == [value |-> FALSE, threw |-> TRUE, compared |-> TRUE]

\* catch (error) { console.error(...); return false; }
VerifyCatch == [value |-> FALSE, threw |-> FALSE, compared |-> TRUE]

\* verifyPassword(password) in environment e; cmpThrows: bcrypt.compare
\* throws if it is called.  value: the boolean returned; threw: the promise
\* rejected instead; compared: bcrypt.compare was called.
verifyPassword(e, password, cmpThrows) ==
  IF e.hash = NoHash
  THEN [value |-> FALSE, threw |-> FALSE, compared |-> FALSE]
  ELSE IF DevFallback(e, password)
  THEN [value |-> TRUE, threw |-> FALSE, compared |-> FALSE]
  ELSE IF cmpThrows
  THEN VerifyCatch
  ELSE [value |-> bcryptCompare(password, e.hash), threw |-> FALSE,
        compared |-> TRUE]

\* variant: the new hash is computed before the current password is verified
changePasswordHashesFirst(e, current, proposed, cmpThrows, hashThrows, salt) ==
  LET v == verifyPassword(e, current, cmpThrows) IN
  IF hashThrows
  THEN [value |-> FALSE, threw |-> TRUE, hashed |-> TRUE, logged |-> << >>]
  ELSE IF v.threw \/ ~v.value
  THEN [value |-> FALSE, threw |-> v.threw, hashed |-> TRUE, logged |-> << >>]
  ELSE [value |-> TRUE, threw |-> FALSE, hashed |-> TRUE,
        logged |-> <<bcryptHash(proposed, salt)>>]

\* changePassword(currentPassword, newPassword) in environment e; hashThrows:
\* bcrypt.hash throws if it is called; salt: the salt it draws otherwise.
\* hashed: generatePasswordHash was called; logged: the hash written to the
\* console.
changePassword(e, current, proposed, cmpThrows, hashThrows, salt) ==
  LET v == verifyPassword(e, current, cmpThrows) IN
  IF v.threw
  THEN [value |-> FALSE, threw |-> TRUE, hashed |-> FALSE, logged |-> << >>]
  ELSE IF ~v.value
  THEN [value |-> FALSE, threw |-> FALSE, hashed |-> FALSE, logged |-> << >>]
  ELSE IF hashThrows
  THEN [value |-> FALSE, threw |-> TRUE, hashed |-> TRUE, logged |-> << >>]
  ELSE [value |-> TRUE, threw |-> FALSE, hashed |-> TRUE,
        logged |-> <<bcryptHash(proposed, salt)>>]

\* variant: process.env.ADMIN_PASSWORD_HASH = newHash
EnvAfterChangeInstalls(e, logged) ==
  IF logged = << >> THEN e ELSE [e EXCEPT !.hash = logged[1]]

\* process.env after changePassword: the new hash is only logged
EnvAfterChange(e, logged) == e

\* no verifyPassword / changePassword call made yet
NoCall ==
  [op |-> "none", password |-> "", proposed |-> "", cmpThrows |-> FALSE,
   value |-> FALSE, threw |-> FALSE, compared |-> FALSE, hashed |-> FALSE,
   logged |-> << >>]

\* ------------------------------------------------------------------------
\* History bookkeeping
\* ------------------------------------------------------------------------
\* the caller's entry before a call: {} or {entry}
Before(ip) == IF ip \in DOMAIN store THEN {store[ip]} ELSE {}

RECURSIVE DropOld(_, _)
DropOld(s, t) ==
  IF s = <<>> THEN s
  ELSE IF s[1] < t - WINDOW_MS THEN DropOld(Tail(s), t)
  ELSE s

AppendRecent(s, t) ==
  LET s2 == Append(s, t)
  IN IF Len(s2) > MAX_ATTEMPTS THEN Tail(s2) ELSE s2

Call(op, ip, allowed, retryAfter, status) ==
  [op |-> op, ip |-> ip, allowed |-> allowed, retryAfter |-> retryAfter,
   status |-> status, before |-> Before(ip)]

\* ------------------------------------------------------------------------
\* State machine
\* ------------------------------------------------------------------------
InitStore ==
  /\ now = 0
  /\ store = << >>
  /\ nextSweep = SWEEP_INTERVAL_MS
  /\ inflight = [c \in Clients |-> [ok \in BOOLEAN |-> 0]]
  /\ last = [op |-> "init", ip |-> "A", allowed |-> TRUE,
             retryAfter |-> Undefined, status |-> 0, before |-> {}]
  /\ lockT = [c \in Clients |-> NoTime]

\* the environment of a production deployment; no call made yet
InitAux ==
  /\ env = [hash |-> bcryptHash("p1", 1), nodeEnv |-> "production",
            adminPassword |-> ""]
  /\ authCall = NoCall
  /\ horizon = MaxTime

\* no failure history is kept
Init == InitStore /\ recent = << >> /\ InitAux

\* the failure history of the request flow's client is kept
InitLogged == InitStore /\ recent = [c \in FlowClients |-> << >>] /\ InitAux

\* Time passes.  The sweep timer fires when it is due, so the clock does not
\* pass nextSweep before the sweep has run.
Tick ==
  /\ now + TickMs <= horizon
  /\ now + TickMs <= nextSweep
  /\ now' = now + TickMs
  /\ recent' = [c \in DOMAIN recent |-> DropOld(recent[c], now + TickMs)]
  /\ last' = [op |-> "tick", ip |-> "A", allowed |-> TRUE,
              retryAfter |-> Undefined, status |-> 0, before |-> {}]
  /\ UNCHANGED <<store, nextSweep, inflight, lockT, aux>>

\* setInterval(cleanupRateLimitStore, 10 * 60 * 1000)
CleanupRateLimitStore ==
  /\ now = nextSweep
  /\ store' = cleanupRateLimitStore(store, now)
  /\ nextSweep' = now + SWEEP_INTERVAL_MS
  /\ last' = [op |-> "sweep", ip |-> "A", allowed |-> TRUE,
              retryAfter |-> Undefined, status |-> 0,
              before |-> {store[c] : c \in (DOMAIN store) \
                                        DOMAIN cleanupRateLimitStore(store, now)}]
  /\ UNCHANGED <<now, inflight, lockT, recent, aux>>

\* the effect of one checkRateLimit(ip) call on store and history
DoCheck(ip, status) ==
  LET r == checkRateLimit(store, ip, now) IN
  /\ store' = r.store
  /\ last' = Call("check", ip, r.allowed, r.retryAfter,
                  IF r.allowed THEN 0 ELSE status)
  /\ lockT' = IF r.store # store /\ ~r.allowed
              THEN [lockT EXCEPT ![ip] = now] ELSE lockT

\* the effect of one recordFailedAttempt(ip) call
DoRecord(ip, status) ==
  /\ ip \in DOMAIN store => store[ip].attempts < AttemptsCap
  /\ store' = recordFailedAttempt(store, ip, now)
  /\ recent' = [c \in DOMAIN recent |->
                  IF c = ip THEN AppendRecent(recent[c], now) ELSE recent[c]]
  /\ last' = Call("record", ip, TRUE, Undefined, status)

\* the effect of one resetRateLimit(ip) call
DoReset(ip, status) ==
  /\ store' = resetRateLimit(store, ip)
  /\ lockT' = [lockT EXCEPT ![ip] = NoTime]
  /\ last' = Call("reset", ip, TRUE, Undefined, status)

\* --- the exported functions called directly, in any order ---------------
CheckRateLimit(ip) ==
  /\ DoCheck(ip, 0)
  /\ UNCHANGED <<now, nextSweep, inflight, recent, aux>>

RecordFailedAttempt(ip) ==
  /\ DoRecord(ip, 0)
  /\ UNCHANGED <<now, nextSweep, inflight, lockT, aux>>

ResetRateLimit(ip) ==
  /\ DoReset(ip, 0)
  /\ UNCHANGED <<now, nextSweep, inflight, recent, aux>>

Next ==
  \/ Tick
  \/ CleanupRateLimitStore
  \/ \E ip \in Clients : CheckRateLimit(ip)
  \/ \E ip \in Clients : RecordFailedAttempt(ip)
  \/ \E ip \in Clients : ResetRateLimit(ip)

Spec == Init /\ [][Next]_vars

\* --- the request flow of POST /api/auth/verify ---------------------------
\* A request runs checkRateLimit; if denied it is answered 429, otherwise it
\* is suspended at `await verifyPassword(password)`.
BeginRequest(ip, ok) ==
  /\ checkRateLimit(store, ip, now).allowed => inflight[ip][ok] < MaxInflight
  /\ DoCheck(ip, 429)
  /\ inflight' = IF checkRateLimit(store, ip, now).allowed
                 THEN [inflight EXCEPT ![ip][ok] = @ + 1] ELSE inflight
  /\ UNCHANGED <<now, nextSweep, recent, aux>>

\* The verification of a suspended request resolves to false: the failure is
\* recorded and the request answered 401.
FinishFailed(ip) ==
  /\ inflight[ip][FALSE] > 0
  /\ DoRecord(ip, 401)
  /\ inflight' = [inflight EXCEPT ![ip][FALSE] = @ - 1]
  /\ UNCHANGED <<now, nextSweep, lockT, aux>>

\* The verification of a suspended request resolves to true: the limiter is
\* reset and the request answered 200.
FinishSucceeded(ip) ==
  /\ inflight[ip][TRUE] > 0
  /\ DoReset(ip, 200)
  /\ inflight' = [inflight EXCEPT ![ip][TRUE] = @ - 1]
  /\ UNCHANGED <<now, nextSweep, recent, aux>>

FlowNext ==
  \/ Tick
  \/ CleanupRateLimitStore
  \/ \E ip \in FlowClients, ok \in BOOLEAN : BeginRequest(ip, ok)
  \/ \E ip \in FlowClients : FinishFailed(ip)
  \/ \E ip \in FlowClients : FinishSucceeded(ip)

\* the request flow, with the failure history of its client kept
FlowSpec == InitLogged /\ [][FlowNext]_vars

\* --- the sequential request flow ------------------------------------------
\* Each request is answered before the next one arrives and before the clock
\* advances: no request is suspended when a request begins or time passes.
Idle == \A c \in Clients, ok \in BOOLEAN : inflight[c][ok] = 0

SeqNext ==
  \/ Idle /\ Tick
  \/ CleanupRateLimitStore
  \/ \E ip \in FlowClients, ok \in BOOLEAN : Idle /\ BeginRequest(ip, ok)
  \/ \E ip \in FlowClients : FinishFailed(ip)
  \/ \E ip \in FlowClients : FinishSucceeded(ip)

SeqSpec == InitLogged /\ [][SeqNext]_vars

\* --- the limiter followed past the end of a lockout -------------------------
\* the clock is followed one sweep period beyond MaxTime, so that a lockout
\* installed at the start has expired when the last sweep runs
LongTime == MaxTime + SWEEP_INTERVAL_MS

LongInit ==
  /\ InitStore
  /\ recent = << >>
  /\ env = [hash |-> bcryptHash("p1", 1), nodeEnv |-> "production",
            adminPassword |-> ""]
  /\ authCall = NoCall
  /\ horizon = LongTime

\* One client calls the three functions in any order; the others only have
\* failures recorded and never check or reset.
LongNext ==
  \/ Tick
  \/ CleanupRateLimitStore
  \/ \E ip \in FlowClients : CheckRateLimit(ip)
  \/ \E ip \in FlowClients : RecordFailedAttempt(ip)
  \/ \E ip \in FlowClients : ResetRateLimit(ip)
  \/ \E ip \in Clients \ FlowClients : RecordFailedAttempt(ip)

LongSpec == LongInit /\ [][LongNext]_vars

\* The clock keeps advancing up to the horizon and the interval timer fires
\* whenever it is due.
LiveSpec == LongSpec /\ WF_vars(Tick) /\ WF_vars(CleanupRateLimitStore)

\* --- the limiter on a clock with millisecond steps -------------------------
\* number of sub-second steps followed after each sweep instant
MaxFine == 2

\* the sub-second steps of the clock, in milliseconds: just under a second
\* and a whole second
FineSteps == {999, 1000}

\* Time passes by d milliseconds, not past the instant the sweep is due.
Elapse(d) ==
  /\ d > 0
  /\ now + d <= horizon
  /\ now + d <= nextSweep
  /\ now' = now + d
  /\ recent' = [c \in DOMAIN recent |-> DropOld(recent[c], now + d)]
  /\ last' = [op |-> "tick", ip |-> "A", allowed |-> TRUE,
              retryAfter |-> Undefined, status |-> 0, before |-> {}]
  /\ UNCHANGED <<store, nextSweep, inflight, lockT, aux>>

\* a few sub-second steps after each sweep instant
ElapseFine ==
  \E d \in FineSteps :
    /\ (now + d) % SWEEP_INTERVAL_MS <= MaxFine * 1000
    /\ Elapse(d)

\* to one millisecond before the sweep is due
ElapseToEve ==
  /\ now < nextSweep - 1
  /\ Elapse(nextSweep - 1 - now)

\* to the instant the sweep is due
ElapseToSweep ==
  /\ now < nextSweep
  /\ Elapse(nextSweep - now)

\* One client calls the three functions in any order at times that are not
\* whole seconds apart.
FineNext ==
  \/ ElapseFine
  \/ ElapseToEve
  \/ ElapseToSweep
  \/ CleanupRateLimitStore
  \/ \E ip \in FlowClients : CheckRateLimit(ip)
  \/ \E ip \in FlowClients : RecordFailedAttempt(ip)
  \/ \E ip \in FlowClients : ResetRateLimit(ip)

FineSpec == Init /\ [][FineNext]_vars

\* --- the credential verifier ----------------------------------------------
VerifyPassword(password, cmpThrows) ==
  LET r == verifyPassword(env, password, cmpThrows) IN
  /\ authCall' = [op |-> "verify", password |-> password, proposed |-> "",
                  cmpThrows |-> cmpThrows, value |-> r.value,
                  threw |-> r.threw, compared |-> r.compared,
                  hashed |-> FALSE, logged |-> << >>]
  /\ UNCHANGED <<now, store, nextSweep, inflight, last, lockT, recent,
                 env, horizon>>

ChangePassword(current, proposed, cmpThrows, hashThrows, salt) ==
  LET r == changePassword(env, current, proposed, cmpThrows, hashThrows, salt)
  IN
  /\ authCall' = [op |-> "change", password |-> current,
                  proposed |-> proposed, cmpThrows |-> cmpThrows,
                  value |-> r.value, threw |-> r.threw,
                  compared |-> verifyPassword(env, current, cmpThrows).compared,
                  hashed |-> r.hashed, logged |-> r.logged]
  /\ env' = EnvAfterChange(env, r.logged)
  /\ UNCHANGED <<now, store, nextSweep, inflight, last, lockT, recent,
                 horizon>>

\* the process started in any environment
AuthInit ==
  /\ InitStore
  /\ recent = << >>
  /\ env \in Envs
  /\ authCall = NoCall
  /\ horizon = MaxTime

\* verifyPassword and changePassword called with any arguments, while
\* failures are recorded in the rate-limit store
AuthNext ==
  \/ \E p \in Passwords, cmpThrows \in BOOLEAN : VerifyPassword(p, cmpThrows)
  \/ \E current \in Passwords, proposed \in Passwords,
        cmpThrows \in BOOLEAN, hashThrows \in BOOLEAN, salt \in Salts :
        ChangePassword(current, proposed, cmpThrows, hashThrows, salt)
  \/ \E ip \in FlowClients : RecordFailedAttempt(ip)

AuthSpec == AuthInit /\ [][AuthNext]_vars

\* ------------------------------------------------------------------------
\* Properties
\* ------------------------------------------------------------------------
\* what checkRateLimit(c) would answer in the current state
Allowed(c) == checkRateLimit(store, c, now).allowed

\* the last step was a checkRateLimit(c) that installed a lockout
Installed(c) ==
  /\ last.op = "check" /\ last.ip = c /\ ~last.allowed
  /\ \E e \in last.before : ~IsBlocked(e, now)

\* C1: once checkRateLimit has installed a lockout for a client at time T and
\* resetRateLimit has not been called for the client since, checkRateLimit
\* refuses the client at every time before T + BLOCK_DURATION_MS, whatever
\* checks, recorded failures and sweeps come in between.
C1_LockoutHolds ==
  \A c \in Clients :
    (lockT[c] # NoTime /\ now < lockT[c] + BLOCK_DURATION_MS) => ~Allowed(c)

\* C2: the first checkRateLimit after exactly MAX_ATTEMPTS recorded failures
\* (the entry counts MAX_ATTEMPTS and carries no lockout yet), made no later
\* than WINDOW_MS after the last failure, refuses with retryAfter =
\* BLOCK_DURATION_MS / 1000; in the request flow every recorded failure is
\* answered 401 and that refused request is answered 429.
C2_LockoutAfterMaxAttempts ==
  /\ (last.op = "check" /\ \E e \in last.before :
          /\ e.attempts = MAX_ATTEMPTS
          /\ e.blockedUntil = Undefined
          /\ now - e.lastAttempt <= WINDOW_MS)
       => /\ ~last.allowed
          /\ last.retryAfter = BLOCK_DURATION_MS \div 1000
          /\ last.retryAfter = 1800
          /\ last.status = 429
  /\ (last.op = "record" /\ \A e \in last.before : e.attempts < MAX_ATTEMPTS)
       => last.status = 401

\* a check at exactly WINDOW_MS after the fifth failure was refused
C2_Witness ==
  /\ last.op = "check" /\ ~last.allowed /\ last.status = 429
  /\ \E e \in last.before :
       /\ e.attempts = MAX_ATTEMPTS
       /\ e.blockedUntil = Undefined
       /\ now - e.lastAttempt = WINDOW_MS

\* C3: a client with no entry or with fewer than MAX_ATTEMPTS attempts is
\* allowed by checkRateLimit; no entry has fewer than MAX_ATTEMPTS attempts
\* together with a blockedUntil in the future.
C3_BelowThresholdAllowed ==
  \A c \in Clients :
    /\ (c \notin DOMAIN store \/ store[c].attempts < MAX_ATTEMPTS)
          => Allowed(c)
    /\ c \in DOMAIN store /\ store[c].attempts < MAX_ATTEMPTS
          => ~IsBlocked(store[c], now)

\* a check has just allowed a client with MAX_ATTEMPTS - 1 attempts while
\* the other client is locked out
C3_Witness ==
  /\ last.op = "check" /\ last.allowed
  /\ last.ip \in DOMAIN store
  /\ store[last.ip].attempts = MAX_ATTEMPTS - 1
  /\ \E b \in DOMAIN store : IsBlocked(store[b], now)

\* C4: right after resetRateLimit(c) the client has no entry, and
\* checkRateLimit(c) answers allowed and leaves the client without entry.
C4_ResetThenAllowed ==
  last.op = "reset" =>
    LET r == checkRateLimit(store, last.ip, now)
    IN /\ last.ip \notin DOMAIN store
       /\ r.allowed
       /\ last.ip \notin DOMAIN r.store

\* resetRateLimit was called for a client with an active lockout
C4_Witness ==
  /\ last.op = "reset"
  /\ \E e \in last.before : IsBlocked(e, now) /\ e.attempts > MAX_ATTEMPTS

\* C5: a recordFailedAttempt executed more than WINDOW_MS after the entry's
\* lastAttempt leaves the entry with attempts = 1.
C5_StaleCounterRestarts ==
  (last.op = "record" /\ \E e \in last.before : now - e.lastAttempt > WINDOW_MS)
    => store[last.ip].attempts = 1

\* C6: when checkRateLimit installs a lockout at time t, at least
\* MAX_ATTEMPTS failures of the client were recorded in [t - WINDOW_MS, t].
C6_SlidingWindow ==
  \A c \in DOMAIN recent :
    Installed(c) => Len(recent[c]) >= MAX_ATTEMPTS

\* C7: in the request flow the attempts counter of an entry never exceeds
\* MAX_ATTEMPTS.
C7_AtMostMaxAttempts ==
  \A c \in DOMAIN store : store[c].attempts <= MAX_ATTEMPTS

\* C8: in the request flow, for a client whose entry carries a lockout that
\* has run out (now >= blockedUntil), checkRateLimit answers allowed and
\* removes the entry; a successful authentication leaves no entry, and a
\* failure recorded for a client without entry starts the counter at 1.
C8_LockoutEnds ==
  /\ \A c \in DOMAIN store :
       (store[c].blockedUntil # Undefined /\ now >= store[c].blockedUntil)
         => LET r == checkRateLimit(store, c, now)
            IN r.allowed /\ c \notin DOMAIN r.store
  /\ (last.op = "reset" /\ last.status = 200) => last.ip \notin DOMAIN store
  /\ (last.op = "record" /\ last.before = {}) => store[last.ip].attempts = 1

\* C9: checkRateLimit(a), recordFailedAttempt(a) and resetRateLimit(a) leave
\* the entry of every other client b as it was, and with it the answer of
\* checkRateLimit(b).
C9_IndependentCounters ==
  [][last'.op \in {"check", "record", "reset"} =>
       \A b \in Clients \ {last'.ip} :
         /\ (b \in DOMAIN store') = (b \in DOMAIN store)
         /\ b \in DOMAIN store => store'[b] = store[b]
         /\ checkRateLimit(store', b, now').allowed
              = checkRateLimit(store, b, now).allowed
         /\ checkRateLimit(store', b, now').retryAfter
              = checkRateLimit(store, b, now).retryAfter
    ]_vars

\* the entry of one client was reset while the other one is locked out
C9_Witness ==
  /\ last.op = "reset" /\ last.before # {}
  /\ \E b \in DOMAIN store : b # last.ip /\ IsBlocked(store[b], now)

\* C10: a checkRateLimit that answers not allowed leaves attempts and
\* lastAttempt of the entry unchanged and changes blockedUntil only by
\* installing a lockout on an entry that was not locked; in the request flow
\* the refused request is not suspended at the verification and records no
\* failure.
C10_RejectionRecordsNothing ==
  [][(last'.op = "check" /\ ~last'.allowed) =>
       LET ip == last'.ip IN
       /\ ip \in DOMAIN store /\ ip \in DOMAIN store'
       /\ store'[ip].attempts = store[ip].attempts
       /\ store'[ip].lastAttempt = store[ip].lastAttempt
       /\ \/ store'[ip].blockedUntil = store[ip].blockedUntil
          \/ /\ ~IsBlocked(store[ip], now)
             /\ store'[ip].blockedUntil = now + BLOCK_DURATION_MS
       /\ inflight' = inflight
       /\ recent' = recent
       /\ last'.status = 429
    ]_vars

\* a request was refused by a check that installed a lockout while another
\* request of the client was suspended at the verification
C10_Witness ==
  /\ \E c \in FlowClients : Installed(c) /\ inflight[c][FALSE] > 0
  /\ last.status = 429

\* C11: no increment is lost.  While a client's entry exists, every completed
\* recordFailedAttempt for the client raises attempts by exactly one and sets
\* lastAttempt to the time of the call, a call that finds no entry leaves
\* attempts = 1, and no other step of any request changes attempts or
\* lastAttempt of an entry it does not delete; so k completed calls without
\* deletion in between raise attempts by exactly k.
C11_NoLostIncrement ==
  [][\A c \in Clients :
       /\ (c \in DOMAIN store /\ c \in DOMAIN store') =>
            IF last'.op = "record" /\ last'.ip = c
            THEN /\ store'[c].attempts = store[c].attempts + 1
                 /\ store'[c].lastAttempt = now'
            ELSE /\ store'[c].attempts = store[c].attempts
                 /\ store'[c].lastAttempt = store[c].lastAttempt
       /\ (c \notin DOMAIN store /\ c \in DOMAIN store') =>
            /\ last'.op = "record" /\ last'.ip = c
            /\ store'[c].attempts = 1
            /\ store'[c].lastAttempt = now'
    ]_vars

\* the second of two requests that were suspended together has recorded its
\* failure on an entry that already counted MAX_ATTEMPTS
C11_Witness ==
  /\ last.op = "record" /\ last.status = 401
  /\ \E e \in last.before : e.attempts = MAX_ATTEMPTS /\ e.lastAttempt < now
  /\ store[last.ip].attempts = MAX_ATTEMPTS + 1
  /\ store[last.ip].lastAttempt = now

\* C12: verifyPassword fails closed.  With no ADMIN_PASSWORD_HASH configured
\* it returns false for every candidate, also in development mode for a
\* candidate equal to the configured ADMIN_PASSWORD; when bcrypt.compare is
\* called and throws it returns false; it never rejects.
C12_FailsClosed ==
  authCall.op = "verify" =>
    /\ env.hash = NoHash => ~authCall.value
    /\ (authCall.compared /\ authCall.cmpThrows) => ~authCall.value
    /\ ~authCall.threw

\* verifyPassword was called without a configured hash, in development mode,
\* with the configured plaintext password
C12_Witness ==
  /\ authCall.op = "verify" /\ ~authCall.value
  /\ env.hash = NoHash
  /\ env.nodeEnv = "development"
  /\ env.adminPassword # "" /\ authCall.password = env.adminPassword

\* C13: outside development mode verifyPassword returns true only for a
\* candidate that matches the configured hash, even if the candidate equals
\* the configured ADMIN_PASSWORD; in development mode with a hash configured
\* a candidate equal to the configured ADMIN_PASSWORD is accepted whether or
\* not it matches the hash.
C13_FallbackOnlyInDevelopment ==
  authCall.op = "verify" =>
    /\ (env.nodeEnv # "development" /\ authCall.value)
          => (env.hash # NoHash /\ bcryptCompare(authCall.password, env.hash))
    /\ (/\ env.nodeEnv = "development"
        /\ env.hash # NoHash
        /\ env.adminPassword # ""
        /\ authCall.password = env.adminPassword)
          => authCall.value

\* in production the configured plaintext password was refused because it
\* does not match the hash
C13_Witness ==
  /\ authCall.op = "verify" /\ ~authCall.value /\ ~authCall.cmpThrows
  /\ env.nodeEnv = "production"
  /\ env.hash # NoHash
  /\ env.adminPassword # "" /\ authCall.password = env.adminPassword

\* C14: changePassword(current, proposed) returns false when
\* verifyPassword(current) is false, whatever proposed is, and then computes
\* no hash, logs nothing and leaves the environment and the rate-limit store
\* as they were.
C14_FailedChangeHasNoEffect ==
  [][(/\ authCall' # authCall
      /\ authCall'.op = "change"
      /\ ~verifyPassword(env, authCall'.password, authCall'.cmpThrows).value)
       => /\ ~authCall'.value
          /\ ~authCall'.threw
          /\ ~authCall'.hashed
          /\ authCall'.logged = << >>
          /\ env' = env
          /\ store' = store
    ]_vars

\* changePassword was refused for a wrong current password and a well-formed
\* proposed one, while the store holds a client at the threshold
C14_Witness ==
  /\ authCall.op = "change" /\ ~authCall.value
  /\ authCall.compared /\ ~authCall.cmpThrows
  /\ authCall.proposed = "p2"
  /\ \E c \in DOMAIN store : store[c].attempts = MAX_ATTEMPTS

\* C15: a changePassword that returns true leaves the secret of the process
\* as it was: the environment is unchanged, verifyPassword answers every
\* candidate as before, still accepts the current password, and the new hash
\* (which verifies the proposed password) is only written to the console.
C15_ChangeKeepsSecret ==
  [][(authCall' # authCall /\ authCall'.op = "change" /\ authCall'.value)
       => /\ env' = env
          /\ \A p \in Passwords :
               verifyPassword(env', p, FALSE) = verifyPassword(env, p, FALSE)
          /\ verifyPassword(env', authCall'.password, FALSE).value
          /\ Len(authCall'.logged) = 1
          /\ bcryptCompare(authCall'.proposed, authCall'.logged[1])
    ]_vars

\* a password change succeeded and the proposed password does not verify
C15_Witness ==
  /\ authCall.op = "change" /\ authCall.value
  /\ authCall.proposed # authCall.password
  /\ ~verifyPassword(env, authCall.proposed, FALSE).value
  /\ verifyPassword(env, authCall.password, FALSE).value

\* C16: recordFailedAttempt never sets or changes blockedUntil.  A call for a
\* client without entry creates {attempts 1, lastAttempt now, no blockedUntil};
\* a call for a client with an entry adds one to attempts, sets lastAttempt
\* to now and keeps blockedUntil as it was; the entries of the other clients
\* are untouched.  (So failures recorded without a check in between carry
\* attempts past MAX_ATTEMPTS with no lockout: C16_Witness.)
C16_RecordLeavesBlockedUntil ==
  [][(last'.op = "record" /\ store' # store) =>
       LET c == last'.ip IN
       /\ c \in DOMAIN store'
       /\ c \notin DOMAIN store =>
            store'[c] = [attempts |-> 1, lastAttempt |-> now,
                         blockedUntil |-> Undefined]
       /\ c \in DOMAIN store =>
            store'[c] = [attempts |-> store[c].attempts + 1,
                         lastAttempt |-> now,
                         blockedUntil |-> store[c].blockedUntil]
       /\ (DOMAIN store') \ {c} = (DOMAIN store) \ {c}
       /\ \A d \in (DOMAIN store) \ {c} : store'[d] = store[d]
    ]_vars

\* a failure was recorded on an entry that already counted MAX_ATTEMPTS; the
\* client has had no lockout since its last reset and the entry carries no
\* blockedUntil
C16_Witness ==
  /\ last.op = "record"
  /\ \E e \in last.before :
       e.attempts >= MAX_ATTEMPTS /\ e.blockedUntil = Undefined
  /\ store[last.ip].attempts > MAX_ATTEMPTS
  /\ store[last.ip].blockedUntil = Undefined
  /\ lockT[last.ip] = NoTime

\* an entry the sweep is to delete at time t according to its description:
\* blockedUntil set and earlier than t, or lastAttempt more than WINDOW_MS
\* before t
Stale(entry, t) ==
  \/ entry.blockedUntil # Undefined /\ entry.blockedUntil < t
  \/ entry.lastAttempt < t - WINDOW_MS

\* C17: a run of cleanupRateLimitStore at time now deletes exactly the
\* entries whose blockedUntil is set and earlier than now or whose lastAttempt
\* is more than WINDOW_MS before now, leaves every other entry unchanged, and
\* leaves no such entry in the store.
C17_SweepDeletesExactlyStale ==
  [][nextSweep' # nextSweep =>
       /\ DOMAIN store' = {c \in DOMAIN store : ~Stale(store[c], now)}
       /\ \A c \in DOMAIN store' : store'[c] = store[c]
       /\ \A c \in DOMAIN store' : ~Stale(store'[c], now')
    ]_vars

\* the sweep has just deleted an entry whose lockout had expired although its
\* last attempt was still inside the window, and has kept another entry
C17_Witness ==
  /\ last.op = "sweep"
  /\ \E e \in last.before :
       /\ e.blockedUntil # Undefined /\ e.blockedUntil < now
       /\ now - e.lastAttempt <= WINDOW_MS
  /\ store # << >>

\* the time of the last sweep before the horizon of LongSpec
LastSweep == (LongTime \div SWEEP_INTERVAL_MS) * SWEEP_INTERVAL_MS

\* the last sweep finds the entry's last attempt outside the window
Abandoned(entry) == entry.lastAttempt + WINDOW_MS < LastSweep

\* C18: while the clock advances and the sweep fires when due, an entry that
\* receives no further recordFailedAttempt is eventually deleted, whether or
\* not its client calls checkRateLimit again: an entry whose last attempt
\* lies more than WINDOW_MS before the last sweep leads to the client having
\* no entry, unless failures keep being recorded for it until its last
\* attempt is no longer that old.
C18_AbandonedEntryDeleted ==
  \A c \in Clients :
    (c \in DOMAIN store /\ Abandoned(store[c]))
      ~> (c \notin DOMAIN store \/ ~Abandoned(store[c]))

\* the sweep has just deleted the only entry of a client that had failures
\* recorded and made no other call, and that was never locked out
C18_Witness ==
  /\ last.op = "sweep"
  /\ \E e \in last.before :
       e.blockedUntil = Undefined /\ now - e.lastAttempt > WINDOW_MS
  /\ \E c \in Clients \ FlowClients : c \notin DOMAIN store
  /\ \A c \in FlowClients : c \in DOMAIN store

\* C19: while an entry exists its blockedUntil is never decreased and never
\* unset.  A step that keeps a client's entry leaves blockedUntil as it was,
\* unless the step is checkRateLimit for that client, the previous
\* blockedUntil is absent or not later than now, and the new value is
\* now + BLOCK_DURATION_MS (which is later than the previous one).
C19_BlockedUntilOnlyInstalled ==
  [][\A c \in Clients :
       (c \in DOMAIN store /\ c \in DOMAIN store') =>
         \/ store'[c].blockedUntil = store[c].blockedUntil
         \/ /\ last'.op = "check" /\ last'.ip = c
            /\ store[c].blockedUntil = Undefined \/ store[c].blockedUntil <= now
            /\ store'[c].blockedUntil = now + BLOCK_DURATION_MS
            /\ store'[c].blockedUntil # Undefined
            /\ store'[c].blockedUntil > store[c].blockedUntil
    ]_vars

\* a check has replaced a lockout that had expired by a new one, after a
\* failure was recorded while the client was locked out
C19_Witness ==
  /\ last.op = "check" /\ ~last.allowed
  /\ \E e \in last.before :
       /\ e.blockedUntil # Undefined /\ e.blockedUntil < now
       /\ e.attempts > MAX_ATTEMPTS
  /\ store[last.ip].blockedUntil = now + BLOCK_DURATION_MS

\* C20: every entry in the store has attempts >= 1.  An entry appears only
\* in a recordFailedAttempt step for its client; checkRateLimit,
\* resetRateLimit, the sweep and the clock never add an entry, so a client
\* whose entry was reset, expired or swept has no entry until its next
\* recorded failure.
C20_EntriesCountFailures ==
  /\ [](\A c \in DOMAIN store : store[c].attempts >= 1)
  /\ [][/\ \A c \in (DOMAIN store') \ DOMAIN store :
            last'.op = "record" /\ last'.ip = c
        /\ (store' # store /\ last'.op # "record") =>
            /\ DOMAIN store' \subseteq DOMAIN store
            /\ last'.op \in {"check", "sweep"} =>
                 \A c \in DOMAIN store' : store'[c].attempts = store[c].attempts
            /\ last'.op = "reset" => last'.ip \notin DOMAIN store'
      ]_vars

\* a check has just found a stale entry and left the client without entry,
\* while the other client's entry counts its failures
C20_Witness ==
  /\ last.op = "check" /\ last.allowed
  /\ \E e \in last.before : WindowPassed(e, now) /\ e.attempts >= 1
  /\ last.ip \notin DOMAIN store
  /\ \E c \in DOMAIN store : store[c].attempts >= 1

\* C21: every checkRateLimit result with allowed = false carries an integer
\* retryAfter between 1 and BLOCK_DURATION_MS / 1000 = 1800 that is the
\* remaining lockout time in milliseconds divided by 1000 and rounded up (the
\* least number of whole seconds that covers it); every result with
\* allowed = true carries no retryAfter.
C21_RetryAfterSeconds ==
  last.op = "check" =>
    IF last.allowed
    THEN last.retryAfter = Undefined
    ELSE /\ last.retryAfter \in 1 .. 1800
         /\ last.retryAfter <= BLOCK_DURATION_MS \div 1000
         /\ last.ip \in DOMAIN store
         /\ LET remaining == store[last.ip].blockedUntil - now IN
            /\ remaining > 0
            /\ last.retryAfter * 1000 >= remaining
            /\ (last.retryAfter - 1) * 1000 < remaining

\* a check made one millisecond before the end of a lockout was refused
\* with retryAfter = 1
C21_Witness ==
  /\ last.op = "check" /\ ~last.allowed
  /\ last.ip \in DOMAIN store
  /\ store[last.ip].blockedUntil - now = 1
  /\ last.retryAfter = 1

\* C22: in every reachable state an entry whose blockedUntil is set has
\* attempts >= MAX_ATTEMPTS, and its blockedUntil is at most
\* BLOCK_DURATION_MS later than the current time.
C22_LockoutOnlyAtThreshold ==
  \A c \in DOMAIN store :
    store[c].blockedUntil # Undefined =>
      /\ store[c].attempts >= MAX_ATTEMPTS
      /\ store[c].blockedUntil <= now + BLOCK_DURATION_MS

\* a check has just installed a lockout on an entry that counted exactly
\* MAX_ATTEMPTS, while the other client's lockout has expired and its entry
\* is still in the store
C22_Witness ==
  /\ last.op = "check" /\ ~last.allowed
  /\ \E e \in last.before :
       e.attempts = MAX_ATTEMPTS /\ e.blockedUntil = Undefined
  /\ store[last.ip].blockedUntil = now + BLOCK_DURATION_MS
  /\ \E c \in DOMAIN store :
       /\ c # last.ip
       /\ store[c].blockedUntil # Undefined /\ store[c].blockedUntil <= now

====
